---- MODULE Spec2Model ----
(***************************************************************************)
(* The ledger core of tipchune (src/primitive/blockchain.rs, crypto.rs):   *)
(* transactions and blocks addressed by their SHA-256 digest, the          *)
(* proof-of-work predicate, Blockchain::verify and Blockchain::push.       *)
(*                                                                         *)
(* Idealisations, stated once:                                             *)
(*  - SHA-256 is collision free: a digest is the record [sha256 |-> c]     *)
(*    of the chunks c fed to the hasher, in order.  The bytes of a digest  *)
(*    are not computed: they depend on the encoding of the keys, which     *)
(*    the model leaves open.  The first byte, the only byte the code       *)
(*    reads, is fixed by the digest and unknown until the content is       *)
(*    hashed: digest_bytes records the first byte of every digest whose    *)
(*    byte has been read, a digest read for the first time gets any byte,  *)
(*    and a digest read again has the byte it had.  The nonce of a block   *)
(*    is the nonce the code stores.                                        *)
(*  - RSA: a signature verifies under a key for a digest exactly when it   *)
(*    is the whole signature made with that key for that digest.  A        *)
(*    signature is as long as the modulus, which PKCS#1 v1.5 needs longer  *)
(*    than the 32-byte digest it pads; the signature field of a TxIn is    *)
(*    a 32-byte Hash and holds only a part of one, which verifies under    *)
(*    no key.  Every public key encodes: PublicKey::hash returns Ok and    *)
(*    the expect in TxIn::hash does not fail.                              *)
(*  - usize and u128 are scaled to UsizeBits bits and to U128Max.          *)
(*  - A panic (index out of bounds, arithmetic overflow with overflow      *)
(*    checks on, a failed assert) is the outcome "Panic"; with overflow    *)
(*    checks off the arithmetic wraps.  The build profile is chosen in     *)
(*    Init.                                                                *)
(***************************************************************************)
EXTENDS Integers, Sequences, FiniteSets, TLC

VARIABLES
    transactions,           \* Blockchain.transactions: digest -> Transaction
    blocks,                 \* Blockchain.blocks: digest -> BlockDesc
    block_heights,          \* Blockchain.block_heights: digest -> height
    max_height,             \* Blockchain.max_height
    max_height_block_hash,  \* Blockchain.max_height_block_hash
    pow_difficulty,         \* Blockchain.pow_difficulty
    overflow_checks,        \* build profile: TRUE = overflow checks (debug)
    op,                     \* the last call: "none", "push", "verify", "pow", "queue"
    block,                  \* the argument of the last call
    result,                 \* what the last call returned
    accepted,               \* digests of the blocks push accepted, in order
    first_acceptance,       \* digest -> the ledger as its first successful push left it
    pushes,                 \* calls of push so far
    pool,                   \* the pending-transaction pool
    digest_bytes,           \* SHA-256 as far as it is known: digest -> its first byte
    connections,            \* WsConnectionManager.connections
    mailbox,                \* the manager's mailbox: Join and Leave messages, in order
    ws_state,               \* each peer: idle, refused, or its actor created .. stopped
    last_hb,                \* WsConnection.last_hb
    hb_due,                 \* when the heartbeat interval of a connection fires next
    now,                    \* Instant::now(), in seconds
    pings,                  \* pings a connection sent from its heartbeat
    frames,                 \* stream items a connection handled
    stop_cause,             \* what first called ctx.stop() on a connection
    delivered,              \* the messages about a connection the manager handled
    stream_ended,           \* whether the frame stream of a connection has ended
    peers                   \* the connections that will be opened

vars == <<transactions, blocks, block_heights, max_height, max_height_block_hash,
          pow_difficulty, overflow_checks, op, block, result, accepted, first_acceptance,
          pushes, pool, digest_bytes, connections, mailbox, ws_state, last_hb, hb_due, now, pings, frames,
          stop_cause, delivered, stream_ended, peers>>

ledger_vars == <<transactions, blocks, block_heights, max_height, max_height_block_hash>>

node_vars == <<ledger_vars, pow_difficulty, overflow_checks, op, block, result, accepted,
               first_acceptance, pushes, pool, digest_bytes>>

ws_vars == <<connections, mailbox, ws_state, last_hb, hb_due, now, pings, frames,
             stop_cause, delivered, stream_ended, peers>>

(***************************************************************************)
(* Bounds of the model and constants of the program.                       *)
(***************************************************************************)
UsizeBits == 11         \* width of usize in the model
U128Max == 2            \* largest height the model's u128 holds
MaxPushes == 3          \* calls of push in one behaviour
MaxTxs == 3             \* transactions in a candidate block (verify alone)
MaxDifficultyTried == 9 \* largest difficulty handed to pow_verified
U8Bits == 8             \* width of the byte pow_verified shifts
PowDifficultyLimit == 8 \* assert!(difficulty <= 8)
TX_PER_BLOCK == 16      \* const TX_PER_BLOCK: usize = 16
HEARTBEAT_INTERVAL == 5 \* const HEARTBEAT_INTERVAL, seconds
TIMEOUT == 30           \* const TIMEOUT, seconds
MaxClock == 36          \* the last second of a behaviour
MaxFrames == 2          \* stream items one connection handles

UsizeModulus == 2 ^ UsizeBits
HalfUsize == UsizeModulus \div 2
U8Modulus == 2 ^ U8Bits
U8Max == U8Modulus - 1

Range(s) == {s[k] : k \in 1..Len(s)}

(***************************************************************************)
(* Digests.                                                                *)
(***************************************************************************)
Sha256(chunks) == [sha256 |-> chunks]

\* self[0] of a digest, `bytes` being what is known of SHA-256.
FirstByte(bytes, hash) == bytes[hash]

\* What is known of SHA-256 once `hash` was found to start with `byte`, and the
\* bytes `hash` can be found to start with, `among` those tried.
Hashed(bytes, hash, byte) ==
    IF hash \in DOMAIN bytes THEN bytes ELSE bytes @@ (hash :> byte)
ByteChoices(bytes, hash, among) ==
    IF hash \in DOMAIN bytes THEN {bytes[hash]} ELSE among

PublicKey_hash(public_key) == Sha256(<<public_key>>)

\* The signature the private key of public_key makes for the digest `hash`.
PrivateKey_sign(public_key, hash) == [signer |-> public_key, covers |-> hash, whole |-> TRUE]

\* The 32 bytes of a signature that a Hash holds.
Hash_from_slice(signed) == [signed EXCEPT !.whole = FALSE]

\* A verify that takes any bytes for a signature.
PublicKey_verify_any(public_key, expected, signed) == TRUE

\* rsa verify: Ok (TRUE) or Err (FALSE).
PublicKey_verify(public_key, expected, signed) ==
    signed = PrivateKey_sign(public_key, expected)

TxOut_hash(output) == Sha256(<<output.receiver_address, output.amount>>)

TxIn_hash(input) ==
    Sha256(<<input.signature, PublicKey_hash(input.public_key),
             input.source_output.transaction_hash, input.source_output.index>>)

Transaction_hash(transaction) ==
    Sha256([k \in 1..Len(transaction.inputs) |-> TxIn_hash(transaction.inputs[k])]
           \o [k \in 1..Len(transaction.outputs) |-> TxOut_hash(transaction.outputs[k])])

Block_hash(b) ==
    Sha256(<<b.desc.parent_hash>>
           \o [k \in 1..Len(b.body.transactions) |-> Transaction_hash(b.body.transactions[k])]
           \o <<b.desc.nonce>>)

Block_from_part(body, desc) == [desc |-> desc, body |-> body]

\* Block::new: the nonce starts at 0.
Block_new(new_transactions, parent_hash) ==
    [desc |-> [parent_hash |-> parent_hash, nonce |-> 0],
     body |-> [transactions |-> new_transactions]]

(***************************************************************************)
(* Machine arithmetic.                                                     *)
(***************************************************************************)
RECURSIVE BitAnd(_, _, _)
BitAnd(a, b, bits) ==
    IF bits = 0 THEN 0
    ELSE (a % 2) * (b % 2) + 2 * BitAnd(a \div 2, b \div 2, bits - 1)

NotU8(a) == U8Max - a

\* 0b1111_1111_u8 >> amount: a shift by the width or more panics with overflow
\* checks and shifts by amount mod width without.
ShrU8(a, amount, checks) ==
    IF amount < U8Bits THEN [panic |-> FALSE, v |-> a \div (2 ^ amount)]
    ELSE IF checks THEN [panic |-> TRUE, v |-> 0]
    ELSE [panic |-> FALSE, v |-> a \div (2 ^ (amount % U8Bits))]

\* a + b on usize.
AddUsize(a, b, checks) ==
    IF a + b < UsizeModulus THEN [panic |-> FALSE, v |-> a + b]
    ELSE IF checks THEN [panic |-> TRUE, v |-> 0]
    ELSE [panic |-> FALSE, v |-> (a + b) % UsizeModulus]

(***************************************************************************)
(* VerifyPow for Hash.                                                     *)
(***************************************************************************)
pow_verified(bytes, hash, difficulty, checks) ==
    IF difficulty > PowDifficultyLimit THEN "Panic"
    ELSE LET mask == ShrU8(U8Max, difficulty, checks)
         IN  IF mask.panic THEN "Panic"
             ELSE IF BitAnd(FirstByte(bytes, hash), NotU8(mask.v), U8Bits) = 0 THEN "true"
             ELSE "false"

(***************************************************************************)
(* TxIn::find_source.                                                      *)
(***************************************************************************)
\* transactions_in_block: the digest -> transaction map collected from the block.
LocalTransactions(txs) ==
    [h \in {Transaction_hash(t) : t \in Range(txs)} |->
        CHOOSE t \in Range(txs) : Transaction_hash(t) = h]

\* &transaction.outputs[index]: a panic when the index is out of bounds.
OutputAt(transaction, index) ==
    IF index < Len(transaction.outputs)
    THEN [st |-> "Ok", out |-> transaction.outputs[index + 1]]
    ELSE [st |-> "Panic"]

find_source(input, local_transactions, chain_transactions) ==
    LET h == input.source_output.transaction_hash
    IN  IF h \in DOMAIN local_transactions
        THEN OutputAt(local_transactions[h], input.source_output.index)
        ELSE IF h \in DOMAIN chain_transactions
        THEN OutputAt(chain_transactions[h], input.source_output.index)
        ELSE [st |-> "DanglingReference"]

(***************************************************************************)
(* Blockchain::verify.                                                     *)
(***************************************************************************)
\* check_input with the signature verified before the ownership comparison.
check_input_signature_first(input, local_transactions, chain_transactions) ==
    LET input_source == find_source(input, local_transactions, chain_transactions)
    IN  IF input_source.st # "Ok" THEN input_source
        ELSE IF ~PublicKey_verify(input.public_key, TxIn_hash(input), input.signature)
        THEN [st |-> "InvalidSignature"]
        ELSE IF PublicKey_hash(input.public_key) # input_source.out.receiver_address
        THEN [st |-> "OwnershipMismatch"]
        ELSE input_source

\* The checks of one input, in the order of the try_fold closure.
check_input(input, local_transactions, chain_transactions) ==
    LET input_source == find_source(input, local_transactions, chain_transactions)
    IN  IF input_source.st # "Ok" THEN input_source
        ELSE IF PublicKey_hash(input.public_key) # input_source.out.receiver_address
        THEN [st |-> "OwnershipMismatch"]
        ELSE IF ~PublicKey_verify(input.public_key, TxIn_hash(input), input.signature)
        THEN [st |-> "InvalidSignature"]
        ELSE input_source

\* transaction.inputs.iter().try_fold(0, ...), from input k with the running sum.
RECURSIVE inputs_try_fold(_, _, _, _, _, _)
inputs_try_fold(inputs, k, sum, local_transactions, chain_transactions, checks) ==
    IF k > Len(inputs) THEN [st |-> "Ok", v |-> sum]
    ELSE LET c == check_input(inputs[k], local_transactions, chain_transactions)
         IN  IF c.st # "Ok" THEN [st |-> c.st, v |-> 0]
             ELSE LET s == AddUsize(sum, c.out.amount, checks)
                  IN  IF s.panic THEN [st |-> "Panic", v |-> 0]
                      ELSE inputs_try_fold(inputs, k + 1, s.v, local_transactions,
                                           chain_transactions, checks)

\* transaction.outputs.iter().map(|output| output.amount).sum()
RECURSIVE outputs_sum(_, _, _, _)
outputs_sum(outputs, k, sum, checks) ==
    IF k > Len(outputs) THEN [st |-> "Ok", v |-> sum]
    ELSE LET s == AddUsize(sum, outputs[k].amount, checks)
         IN  IF s.panic THEN [st |-> "Panic", v |-> 0]
             ELSE outputs_sum(outputs, k + 1, s.v, checks)

\* i != 0 && transaction_output_amount > transaction_input_amount
creates_amount(i, transaction_output_amount, transaction_input_amount) ==
    i # 0 /\ transaction_output_amount > transaction_input_amount

\* The loop over block.body.transactions.iter().enumerate(), from index i with
\* the block totals so far.
RECURSIVE verify_loop(_, _, _, _, _, _, _)
verify_loop(txs, i, block_input_amount, block_output_amount, local, chain, checks) ==
    IF i >= Len(txs)
    THEN [st |-> "Ok", input |-> block_input_amount, output |-> block_output_amount]
    ELSE
    LET transaction == txs[i + 1]
        tin == inputs_try_fold(transaction.inputs, 1, 0, local, chain, checks)
        tout == outputs_sum(transaction.outputs, 1, 0, checks)
        bin == AddUsize(block_input_amount, tin.v, checks)
        bout == AddUsize(block_output_amount, tout.v, checks)
    IN  IF tin.st # "Ok" THEN [st |-> tin.st]
        ELSE IF tout.st # "Ok" THEN [st |-> tout.st]
        ELSE IF creates_amount(i, tout.v, tin.v) THEN [st |-> "UnbalancedTransaction"]
        ELSE IF bin.panic \/ bout.panic THEN [st |-> "Panic"]
        ELSE verify_loop(txs, i + 1, bin.v, bout.v, local, chain, checks)

\* The shape check on block.base_transaction(), which indexes transactions[0].
base_transaction_check(txs) ==
    IF Len(txs) = 0 THEN "Panic"
    ELSE IF Len(txs[1].inputs) # 0 \/ Len(txs[1].outputs) # 1 THEN "MalformedBase"
    ELSE "Ok"

verify(bytes, chain_transactions, difficulty, checks, b) ==
    LET pow == pow_verified(bytes, Block_hash(b), difficulty, checks)
        txs == b.body.transactions
        totals == verify_loop(txs, 0, 0, 0, LocalTransactions(txs),
                              chain_transactions, checks)
    IN  IF pow = "Panic" THEN "Panic"
        ELSE IF pow = "false" THEN "InsufficientWork"
        ELSE IF totals.st # "Ok" THEN totals.st
        ELSE IF totals.input # totals.output THEN "UnbalancedBlock"
        ELSE base_transaction_check(txs)

(***************************************************************************)
(* Blockchain::push.                                                       *)
(***************************************************************************)
\* An insert that rebuilds the map around the new entry alone.
Insert_alone(map, key, value) == [x \in {key} |-> value]

\* HashMap::insert.
Insert(map, key, value) ==
    [x \in DOMAIN map \cup {key} |-> IF x = key THEN value ELSE map[x]]

\* for transaction in &block.body.transactions { self.transactions.insert(..) }
InsertTransactions(map, txs) ==
    [h \in DOMAIN map \cup {Transaction_hash(t) : t \in Range(txs)} |->
        IF \E t \in Range(txs) : Transaction_hash(t) = h
        THEN CHOOSE t \in Range(txs) : Transaction_hash(t) = h
        ELSE map[h]]

\* advances_tip with no comparison: every accepted block becomes the tip.
advances_tip_always(height, current_max_height) == TRUE

\* advances_tip with >= for >: a block of equal height displaces the tip.
advances_tip_on_tie(height, current_max_height) == height >= current_max_height

\* height > self.max_height
advances_tip(height, current_max_height) == height > current_max_height

\* commit that moves the tip digest and leaves max_height behind.
commit_tip_without_height(self, b, hash, height) ==
    LET s == [self EXCEPT
                 !.block_heights = Insert(@, hash, height),
                 !.blocks = Insert(@, hash, b.desc),
                 !.transactions = InsertTransactions(@, b.body.transactions)]
    IN  IF advances_tip(height, self.max_height)
        THEN [s EXCEPT !.max_height_block_hash = hash]
        ELSE s

\* commit without the insert into blocks: the tip may name an unrecorded block.
commit_without_block(self, b, hash, height) ==
    LET s == [self EXCEPT
                 !.block_heights = Insert(@, hash, height),
                 !.transactions = InsertTransactions(@, b.body.transactions)]
    IN  IF advances_tip(height, self.max_height)
        THEN [s EXCEPT !.max_height = height, !.max_height_block_hash = hash]
        ELSE s

\* The inserts and the tip update, once verify and the height lookup succeeded.
commit(self, b, hash, height) ==
    LET s == [self EXCEPT
                 !.block_heights = Insert(@, hash, height),
                 !.blocks = Insert(@, hash, b.desc),
                 !.transactions = InsertTransactions(@, b.body.transactions)]
    IN  IF advances_tip(height, self.max_height)
        THEN [s EXCEPT !.max_height = height, !.max_height_block_hash = hash]
        ELSE s

\* push with the transactions inserted before the parent's height is looked up.
push_inserts_first(self, bytes, checks, b) ==
    LET verified == verify(bytes, self.transactions, self.pow_difficulty, checks, b)
        hash == Block_hash(b)
        parent == b.desc.parent_hash
        early == [self EXCEPT !.transactions = InsertTransactions(@, b.body.transactions)]
    IN  IF verified # "Ok" THEN [result |-> verified, self |-> self]
        ELSE IF parent \notin DOMAIN self.block_heights
        THEN [result |-> "UnknownParent", self |-> early]
        ELSE IF self.block_heights[parent] = U128Max
        THEN [result |-> "HeightOverflow", self |-> early]
        ELSE [result |-> "Ok",
              self |-> commit(self, b, hash, self.block_heights[parent] + 1)]

\* push with a missing parent taken for a root at height 0.
push_orphan_as_root(self, bytes, checks, b) ==
    LET verified == verify(bytes, self.transactions, self.pow_difficulty, checks, b)
        hash == Block_hash(b)
        parent == b.desc.parent_hash
    IN  IF verified # "Ok" THEN [result |-> verified, self |-> self]
        ELSE IF parent \notin DOMAIN self.block_heights
        THEN [result |-> "Ok", self |-> commit(self, b, hash, 1)]
        ELSE IF self.block_heights[parent] = U128Max
        THEN [result |-> "HeightOverflow", self |-> self]
        ELSE [result |-> "Ok",
              self |-> commit(self, b, hash, self.block_heights[parent] + 1)]

\* push with wrapping_add for checked_add: a height past the maximum wraps to 0.
push_wraps_height(self, bytes, checks, b) ==
    LET verified == verify(bytes, self.transactions, self.pow_difficulty, checks, b)
        hash == Block_hash(b)
        parent == b.desc.parent_hash
    IN  IF verified # "Ok" THEN [result |-> verified, self |-> self]
        ELSE IF parent \notin DOMAIN self.block_heights
        THEN [result |-> "UnknownParent", self |-> self]
        ELSE [result |-> "Ok",
              self |-> commit(self, b, hash, (self.block_heights[parent] + 1) % (U128Max + 1))]

push(self, bytes, checks, b) ==
    LET verified == verify(bytes, self.transactions, self.pow_difficulty, checks, b)
        hash == Block_hash(b)
        parent == b.desc.parent_hash
    IN  IF verified # "Ok" THEN [result |-> verified, self |-> self]
        ELSE IF parent \notin DOMAIN self.block_heights
        THEN [result |-> "UnknownParent", self |-> self]
        ELSE IF self.block_heights[parent] = U128Max
        THEN [result |-> "HeightOverflow", self |-> self]
        ELSE [result |-> "Ok",
              self |-> commit(self, b, hash, self.block_heights[parent] + 1)]

current_hash(self) == self.max_height_block_hash

(***************************************************************************)
(* tipchuned/src/services/websocket.rs and routes/sock.rs: the connection  *)
(* manager, the request handler and the connection actors.  The handler    *)
(* refuses a request whose arguments it cannot extract, and builds the     *)
(* actor otherwise.  do_send appends to the manager's mailbox, which it    *)
(* handles in order; ctx.stop() marks the actor as stopping, and the       *)
(* stopping hook runs after the handler that called it.  A heartbeat fires *)
(* when it is due, the stopping hook and the manager run within the second *)
(* of the call that woke them, and the peers send their frames during the  *)
(* first LastArrival seconds.                                              *)
(***************************************************************************)
Connections == {"c1", "c2"}
FrameKinds == {"Err", "Ping", "Pong", "Text", "Binary", "Close", "Continuation", "Nop"}

\* The last second at which a connection starts or its timer is reset, so that
\* every timeout falls within MaxClock.
LastArrival == MaxClock - TIMEOUT - HEARTBEAT_INTERVAL

Join(connection) == [kind |-> "Join", connection |-> connection]
Leave(connection) == [kind |-> "Leave", connection |-> connection]

\* Handler<Join>: self.connections.push(msg.connection)
Join_handle(list, msg) == Append(list, msg.connection)

\* Handler<Leave>: self.connections.retain(|conn| *conn != msg.connection)
Leave_handle(list, msg) ==
    LET Other(conn) == conn # msg.connection
    IN  SelectSeq(list, Other)

\* Instant::now().duration_since(act.last_hb) > TIMEOUT
timed_out(instant, last) == instant - last > TIMEOUT

\* WsConnectionManager::new and no connection yet.
InitWs ==
    /\ connections = <<>>
    /\ mailbox = <<>>
    /\ ws_state = [c \in Connections |-> "idle"]
    /\ last_hb = [c \in Connections |-> 0]
    /\ hb_due = [c \in Connections |-> 0]
    /\ now = 0
    /\ pings = [c \in Connections |-> 0]
    /\ frames = [c \in Connections |-> 0]
    /\ stop_cause = [c \in Connections |-> "none"]
    /\ delivered = [c \in Connections |-> <<>>]
    /\ stream_ended = [c \in Connections |-> FALSE]

\* ctx.stop(): the first caller is the cause on record.
ctx_stop(c, cause) ==
    /\ ws_state' = [ws_state EXCEPT ![c] = "stopping"]
    /\ stop_cause' = [stop_cause EXCEPT ![c] = IF @ = "none" THEN cause ELSE @]

\* The application data sock::route registers, cfg.app_data(connection_manager),
\* and the data start_connection asks of the request, each named by its type:
\* actix-web finds application data by type.
RegisteredAppData == {"Addr<WsConnectionManager>"}
RequestedAppData == "Data<Addr<WsConnectionManager>>"

\* The extractor of Data<T>: Ok (TRUE) when data of that type is registered.
Data_from_request(registered) == RequestedAppData \in registered

\* WsConnection::new(manager).
WsConnection_new(c) ==
    /\ ws_state' = [ws_state EXCEPT ![c] = "created"]
    /\ last_hb' = [last_hb EXCEPT ![c] = now]

\* start_connection on the request of a peer: the arguments are extracted
\* first, and the request is refused when an extractor fails; otherwise the
\* connection is built and handed to ws::start.
start_connection(c) ==
    /\ c \in peers
    /\ ws_state[c] = "idle"
    /\ now <= LastArrival
    /\ IF Data_from_request(RegisteredAppData)
       THEN WsConnection_new(c)
       ELSE /\ ws_state' = [ws_state EXCEPT ![c] = "refused"]
            /\ UNCHANGED last_hb
    /\ UNCHANGED <<connections, mailbox, hb_due, now, pings, frames, stop_cause, delivered,
                   peers, stream_ended, node_vars>>

\* Actor::started: schedule the heartbeat, then send Join.
started(c) ==
    /\ ws_state[c] = "created"
    /\ now <= LastArrival
    /\ ws_state' = [ws_state EXCEPT ![c] = "running"]
    /\ hb_due' = [hb_due EXCEPT ![c] = now + HEARTBEAT_INTERVAL]
    /\ mailbox' = Append(mailbox, Join(c))
    /\ UNCHANGED <<connections, last_hb, now, pings, frames, stop_cause, delivered, peers,
                   stream_ended, node_vars>>

\* The closure of run_interval in WsConnection::hb.
hb(c) ==
    /\ ws_state[c] = "running"
    /\ now = hb_due[c]
    /\ IF timed_out(now, last_hb[c])
       THEN /\ mailbox' = Append(mailbox, Leave(c))
            /\ ctx_stop(c, "timeout")
            /\ UNCHANGED <<pings, hb_due>>
       ELSE /\ pings' = [pings EXCEPT ![c] = @ + 1]
            /\ hb_due' = [hb_due EXCEPT ![c] = @ + HEARTBEAT_INTERVAL]
            /\ UNCHANGED <<mailbox, ws_state, stop_cause>>
    /\ UNCHANGED <<connections, last_hb, now, frames, delivered, peers, stream_ended, node_vars>>

\* Actor::stopping: send Leave and stop.
stopping(c) ==
    /\ ws_state[c] = "stopping"
    /\ mailbox' = Append(mailbox, Leave(c))
    /\ ws_state' = [ws_state EXCEPT ![c] = "stopped"]
    /\ UNCHANGED <<connections, last_hb, hb_due, now, pings, frames, stop_cause, delivered,
                   peers, stream_ended, node_vars>>

\* StreamHandler::finished, the trait's provided method, which WsConnection
\* does not override: the stream of frames ended, ctx.stop().
StreamHandler_finished(c) ==
    /\ ws_state[c] \in {"running", "stopping"}
    /\ ~stream_ended[c]
    /\ now <= LastArrival
    /\ stream_ended' = [stream_ended EXCEPT ![c] = TRUE]
    /\ ctx_stop(c, "finished")
    /\ UNCHANGED <<connections, mailbox, last_hb, hb_due, now, pings, frames, delivered,
                   peers, node_vars>>

\* StreamHandler::handle on one item of the stream.  Items already read may
\* still be handled between ctx.stop() and the stopping hook.
StreamHandler_handle(c, item) ==
    /\ ws_state[c] \in {"running", "stopping"}
    /\ ~stream_ended[c]
    /\ frames[c] < MaxFrames
    /\ now <= LastArrival
    /\ frames' = [frames EXCEPT ![c] = @ + 1]
    /\ CASE item = "Err" -> ctx_stop(c, "error") /\ UNCHANGED last_hb
         [] item \in {"Ping", "Pong"} ->
                /\ last_hb' = [last_hb EXCEPT ![c] = now]
                /\ UNCHANGED <<ws_state, stop_cause>>
         [] item \in {"Text", "Binary", "Nop"} -> UNCHANGED <<last_hb, ws_state, stop_cause>>
         [] item = "Close" -> ctx_stop(c, "close") /\ UNCHANGED last_hb
         [] item = "Continuation" -> ctx_stop(c, "continuation") /\ UNCHANGED last_hb
    /\ UNCHANGED <<connections, mailbox, hb_due, now, pings, delivered, peers, stream_ended,
                   node_vars>>

\* The manager takes the next message of its mailbox.
Manager_Join ==
    /\ mailbox # <<>>
    /\ Head(mailbox).kind = "Join"
    /\ connections' = Join_handle(connections, Head(mailbox))
    /\ mailbox' = Tail(mailbox)
    /\ delivered' = [delivered EXCEPT ![Head(mailbox).connection] = Append(@, "Join")]
    /\ UNCHANGED <<ws_state, last_hb, hb_due, now, pings, frames, stop_cause, peers,
                   stream_ended, node_vars>>

Manager_Leave ==
    /\ mailbox # <<>>
    /\ Head(mailbox).kind = "Leave"
    /\ connections' = Leave_handle(connections, Head(mailbox))
    /\ mailbox' = Tail(mailbox)
    /\ delivered' = [delivered EXCEPT ![Head(mailbox).connection] = Append(@, "Leave")]
    /\ UNCHANGED <<ws_state, last_hb, hb_due, now, pings, frames, stop_cause, peers,
                   stream_ended, node_vars>>

\* One second passes: no heartbeat is due, no stopping hook is pending and the
\* manager has emptied its mailbox.
Tock ==
    /\ now < MaxClock
    /\ \A c \in Connections : ws_state[c] = "running" => now < hb_due[c]
    /\ \A c \in Connections : ws_state[c] # "stopping"
    /\ mailbox = <<>>
    /\ now' = now + 1
    /\ UNCHANGED <<connections, mailbox, ws_state, last_hb, hb_due, pings, frames,
                   stop_cause, delivered, peers, stream_ended, node_vars>>

(***************************************************************************)
(* The genesis ledger and the candidate blocks.                            *)
(***************************************************************************)
TxOut(key, amount) == [receiver_address |-> PublicKey_hash(key), amount |-> amount]
TxOutPtr(transaction_hash, index) == [transaction_hash |-> transaction_hash, index |-> index]
TxIn(signature, public_key, source_output) ==
    [signature |-> signature, public_key |-> public_key, source_output |-> source_output]
Transaction(inputs, outputs) == [inputs |-> inputs, outputs |-> outputs]

\* An input whose signature field is filled from the signature the holder of
\* `key` made for the input before it was signed, and one filled from bytes
\* nobody signed.
UnsignedBytes == Hash_from_slice(PrivateKey_sign("nobody", Sha256(<<>>)))
SignedIn(key, ptr) ==
    TxIn(Hash_from_slice(PrivateKey_sign(key, TxIn_hash(TxIn(UnsignedBytes, key, ptr)))),
         key, ptr)
ForgedIn(key, ptr) == TxIn(UnsignedBytes, key, ptr)

\* The genesis entry: one transaction seeding an output to k1 and one to k2.
GenesisTransaction == Transaction(<<>>, <<TxOut("k1", 2), TxOut("k2", 1)>>)
GenesisDesc == [parent_hash |-> Sha256(<<>>), nonce |-> 0]
GenesisBlock == Block_from_part([transactions |-> <<GenesisTransaction>>], GenesisDesc)
GenesisHash == Block_hash(GenesisBlock)
GenesisTxHash == Transaction_hash(GenesisTransaction)
Seed0 == TxOutPtr(GenesisTxHash, 0)

\* Transactions a peer may send.
Base0 == Transaction(<<>>, <<TxOut("k1", 0)>>)
Base1 == Transaction(<<>>, <<TxOut("k1", 1)>>)
BaseK2 == Transaction(<<>>, <<TxOut("k2", 0)>>)
TwoZero == Transaction(<<>>, <<TxOut("k1", 0), TxOut("k2", 0)>>)
EmptyTx == Transaction(<<>>, <<>>)
WrapTx == Transaction(<<>>, <<TxOut("k1", HalfUsize), TxOut("k1", HalfUsize)>>)
SpendA == Transaction(<<SignedIn("k1", Seed0)>>, <<TxOut("k2", 2)>>)
SpendTwice == Transaction(<<SignedIn("k1", Seed0), SignedIn("k1", Seed0)>>,
                          <<TxOut("k2", 2), TxOut("k2", 2)>>)
BadSignature == Transaction(<<ForgedIn("k1", Seed0)>>, <<TxOut("k2", 2)>>)
WrongKeySigned == Transaction(<<SignedIn("k2", Seed0)>>, <<TxOut("k2", 2)>>)
WrongKeyForged == Transaction(<<ForgedIn("k2", Seed0)>>, <<TxOut("k2", 2)>>)
UnknownSource ==
    Transaction(<<SignedIn("k1", TxOutPtr(Transaction_hash(EmptyTx), 0))>>, <<TxOut("k2", 2)>>)
IndexPastEnd ==
    Transaction(<<SignedIn("k1", TxOutPtr(GenesisTxHash, Len(GenesisTransaction.outputs)))>>,
                <<TxOut("k2", 2)>>)
Respend ==
    Transaction(<<SignedIn("k2", TxOutPtr(Transaction_hash(SpendA), 0))>>, <<TxOut("k1", 2)>>)

Catalogue ==
    {Base0, Base1, TwoZero, EmptyTx, WrapTx, SpendA, SpendTwice, BadSignature,
     WrongKeySigned, WrongKeyForged, UnknownSource, IndexPastEnd, Respend}

\* Sequences over S of length at most n.
RECURSIVE SeqsUpTo(_, _)
SeqsUpTo(S, n) ==
    IF n = 0 THEN {<<>>}
    ELSE LET shorter == SeqsUpTo(S, n - 1)
         IN  shorter \cup {Append(q, x) : q \in shorter, x \in S}

\* Nonces of candidate blocks.
Nonces == {0, 1}

\* First bytes a digest is found to have: with 8, 3, 2 and 0 leading zero bits
\* for verify alone; with 3 for the blocks pushed, and with 3 or 0 for those
\* that hold the base transaction alone and for the block queue assembles.
FirstBytes == {0, 26, 34, 255}
PushedFirstBytes == {26, 255}
BytesTried(b) == IF b.body.transactions = <<Base0>> THEN PushedFirstBytes ELSE {26}

\* A block nobody pushed, as a parent.
StrangerHash ==
    Block_hash(Block_from_part([transactions |-> <<Base0>>],
                               [parent_hash |-> GenesisHash, nonce |-> 2]))

\* Candidates for verify alone: every body of at most MaxTxs transactions.
VerifyCandidates ==
    {Block_from_part([transactions |-> txs], [parent_hash |-> GenesisHash, nonce |-> n]) :
        txs \in SeqsUpTo(Catalogue, MaxTxs), n \in Nonces}

\* Candidates for push.  ForkBodies are tried on every known parent, TipBodies
\* (one per remaining path through verify) on the tip; one block names a parent
\* nobody pushed and one differs from a block on genesis in its nonce alone.
ForkBodies ==
    {<<Base0>>, <<BaseK2>>, <<Base0, EmptyTx>>}

TipBodies ==
    {<<Base0, SpendTwice>>, <<Base0, Base1>>, <<Base0, WrapTx>>, <<>>, <<Base1>>, <<TwoZero>>,
     <<Base0, WrongKeySigned>>, <<Base0, UnknownSource>>, <<Base0, IndexPastEnd>>}

ChainBlock(txs, parent_hash, nonce) ==
    Block_from_part([transactions |-> txs], [parent_hash |-> parent_hash, nonce |-> nonce])

ChainCandidates(known, tip) ==
    {ChainBlock(txs, p, 0) : txs \in ForkBodies, p \in known}
    \cup {ChainBlock(txs, tip, 0) : txs \in TipBodies}
    \cup {ChainBlock(<<Base0>>, StrangerHash, 0), ChainBlock(<<Base0>>, GenesisHash, 1)}

(***************************************************************************)
(* The ledger as a state machine.                                          *)
(***************************************************************************)
Self ==
    [transactions |-> transactions, blocks |-> blocks, block_heights |-> block_heights,
     max_height |-> max_height, max_height_block_hash |-> max_height_block_hash,
     pow_difficulty |-> pow_difficulty]

\* The history kept for the claims: the ledger a first acceptance left stays on
\* record.
Recorded(history, hash, ledger) ==
    IF hash \in DOMAIN history THEN history ELSE history @@ (hash :> ledger)

\* The ledger after construction: the genesis entry at height 0 is the tip.
InitLedger ==
    /\ transactions = (GenesisTxHash :> GenesisTransaction)
    /\ blocks = (GenesisHash :> GenesisDesc)
    /\ block_heights = (GenesisHash :> 0)
    /\ max_height = 0
    /\ max_height_block_hash = GenesisHash
    /\ overflow_checks \in BOOLEAN
    /\ op = "none"
    /\ block = GenesisBlock
    /\ result = "Ok"
    /\ accepted = <<>>
    /\ first_acceptance = [hash \in {} |-> 0]
    /\ pushes = 0
    /\ pool = <<>>
    /\ digest_bytes = [hash \in {} |-> 0]
    /\ InitWs

Init ==
    /\ InitLedger
    /\ pow_difficulty \in {0, 3}
    /\ peers = {}

Push ==
    /\ pushes < MaxPushes
    /\ pushes' = pushes + 1
    /\ \E b \in ChainCandidates(DOMAIN block_heights, max_height_block_hash) :
        \E byte \in ByteChoices(digest_bytes, Block_hash(b), BytesTried(b)) :
          LET r == push(Self, Hashed(digest_bytes, Block_hash(b), byte), overflow_checks, b)
          IN  /\ digest_bytes' = Hashed(digest_bytes, Block_hash(b), byte)
              /\ transactions' = r.self.transactions
              /\ blocks' = r.self.blocks
              /\ block_heights' = r.self.block_heights
              /\ max_height' = r.self.max_height
              /\ max_height_block_hash' = r.self.max_height_block_hash
              /\ op' = "push"
              /\ block' = b
              /\ result' = r.result
              /\ accepted' = IF r.result = "Ok" THEN Append(accepted, Block_hash(b))
                             ELSE accepted
              /\ first_acceptance' = IF r.result = "Ok"
                                     THEN Recorded(first_acceptance, Block_hash(b), r.self)
                                     ELSE first_acceptance
    /\ UNCHANGED <<pow_difficulty, overflow_checks, pool, ws_vars>>

Next == Push

Spec == Init /\ [][Next]_vars

(***************************************************************************)
(* verify alone, on the genesis ledger: one call on a candidate block.     *)
(***************************************************************************)
InitVerify ==
    /\ InitLedger
    /\ pow_difficulty \in {0, 3, PowDifficultyLimit}
    /\ peers = {}

VerifyCall ==
    /\ op = "none"
    /\ \E b \in VerifyCandidates :
        \E byte \in ByteChoices(digest_bytes, Block_hash(b), FirstBytes) :
          /\ digest_bytes' = Hashed(digest_bytes, Block_hash(b), byte)
          /\ block' = b
          /\ result' = verify(Hashed(digest_bytes, Block_hash(b), byte), transactions,
                              pow_difficulty, overflow_checks, b)
    /\ op' = "verify"
    /\ UNCHANGED <<ledger_vars, pow_difficulty, overflow_checks, accepted, first_acceptance,
                   pushes, pool, ws_vars>>

NextVerify == VerifyCall

SpecVerify == InitVerify /\ [][NextVerify]_vars

(***************************************************************************)
(* pow_verified alone: every first byte against every difficulty, on the   *)
(* digest of a block, of a transaction and of nothing.                     *)
(***************************************************************************)
InitPow ==
    /\ InitLedger
    /\ pow_difficulty \in 0..MaxDifficultyTried
    /\ peers = {}

PowDigests ==
    {Block_hash(ChainBlock(<<Base0>>, GenesisHash, 0)), Transaction_hash(Base0), Sha256(<<>>)}

PowCall ==
    /\ op = "none"
    /\ \E hash \in PowDigests, byte \in 0..U8Max :
          /\ digest_bytes' = Hashed(digest_bytes, hash, byte)
          /\ result' = pow_verified(Hashed(digest_bytes, hash, byte), hash,
                                    pow_difficulty, overflow_checks)
          /\ UNCHANGED block
    /\ op' = "pow"
    /\ UNCHANGED <<ledger_vars, pow_difficulty, overflow_checks, accepted, first_acceptance,
                   pushes, pool, ws_vars>>

NextPow == PowCall

SpecPow == InitPow /\ [][NextPow]_vars

(***************************************************************************)
(* Blockchain::queue and the pending pool.  A genesis transaction seeds    *)
(* TX_PER_BLOCK outputs; each queued transaction spends the next one, a    *)
(* miner's base transaction may be queued once per batch, and empty        *)
(* transactions may be queued while no spend is pending.                   *)
(***************************************************************************)
SeedAmount == 100       \* amount of every seeded output
MaxBatches == 1         \* batches assembled in one behaviour

SeededTransaction ==
    Transaction(<<>>, [k \in 1..TX_PER_BLOCK |-> TxOut("k1", SeedAmount)])
SeededBlock == Block_from_part([transactions |-> <<SeededTransaction>>], GenesisDesc)
SeededHash == Block_hash(SeededBlock)
SeedSpend(index) ==
    Transaction(<<SignedIn("k1", TxOutPtr(Transaction_hash(SeededTransaction), index))>>,
                <<TxOut("k2", SeedAmount)>>)

\* queue: append to the pool; at TX_PER_BLOCK transactions drain the pool into
\* a block on the current tip and push it.
broadcast(pushed, candidate) ==
    [result |-> IF pushed.result = "Ok" THEN "BroadcastBlock" ELSE pushed.result,
     self |-> pushed.self, pool |-> <<>>, block |-> candidate, assembled |-> TRUE]

queue(self, bytes, pending, checks, transaction) ==
    LET grown == Append(pending, transaction)
        candidate == Block_new(grown, current_hash(self))
    IN  IF Len(grown) < TX_PER_BLOCK
        THEN [result |-> "None", self |-> self, pool |-> grown, block |-> candidate,
              assembled |-> FALSE]
        ELSE broadcast(push(self, bytes, checks, candidate), candidate)

QueueCandidates(pending) ==
    {SeedSpend(Len(pending))}
    \cup (IF Base0 \in Range(pending) THEN {} ELSE {Base0})
    \cup (IF Range(pending) \subseteq {Base0, EmptyTx} THEN {EmptyTx} ELSE {})

InitQueue ==
    /\ transactions = (Transaction_hash(SeededTransaction) :> SeededTransaction)
    /\ blocks = (SeededHash :> GenesisDesc)
    /\ block_heights = (SeededHash :> 0)
    /\ max_height = 0
    /\ max_height_block_hash = SeededHash
    /\ pow_difficulty \in {0, 3}
    /\ overflow_checks \in BOOLEAN
    /\ op = "none"
    /\ block = SeededBlock
    /\ result = "Ok"
    /\ accepted = <<>>
    /\ first_acceptance = [hash \in {} |-> 0]
    /\ pushes = 0
    /\ pool = <<>>
    /\ digest_bytes = [hash \in {} |-> 0]
    /\ InitWs
    /\ peers = {}

\* The digest queue has hashed when it returns: that of the block it assembled.
QueueHashed(pending, transaction) ==
    IF Len(pending) + 1 < TX_PER_BLOCK THEN {}
    ELSE {Block_hash(Block_new(Append(pending, transaction), current_hash(Self)))}

Queue ==
    /\ pushes < MaxBatches
    /\ \E transaction \in QueueCandidates(pool), byte \in PushedFirstBytes :
        \E bytes \in {IF QueueHashed(pool, transaction) = {} THEN digest_bytes
                       ELSE Hashed(digest_bytes,
                                   CHOOSE hash \in QueueHashed(pool, transaction) : TRUE,
                                   byte)} :
          \E r \in {queue(Self, bytes, pool, overflow_checks, transaction)} :
              /\ digest_bytes' = bytes
              /\ transactions' = r.self.transactions
              /\ blocks' = r.self.blocks
              /\ block_heights' = r.self.block_heights
              /\ max_height' = r.self.max_height
              /\ max_height_block_hash' = r.self.max_height_block_hash
              /\ pool' = r.pool
              /\ op' = "queue"
              /\ block' = IF r.assembled THEN r.block ELSE block
              /\ result' = r.result
              /\ pushes' = IF r.assembled THEN pushes + 1 ELSE pushes
              /\ accepted' = IF r.result = "BroadcastBlock"
                             THEN Append(accepted, Block_hash(r.block))
                             ELSE accepted
              /\ first_acceptance' = IF r.result = "BroadcastBlock"
                                     THEN Recorded(first_acceptance, Block_hash(r.block), r.self)
                                     ELSE first_acceptance
    /\ UNCHANGED <<pow_difficulty, overflow_checks, ws_vars>>

NextQueue == Queue

SpecQueue == InitQueue /\ [][NextQueue]_vars

(***************************************************************************)
(* The websocket service next to a ledger at rest: sock::route has run in   *)
(* one worker and started that worker's manager; each worker of the server *)
(* runs it again and has a manager of its own.                             *)
(***************************************************************************)
InitSock ==
    /\ InitLedger
    /\ pow_difficulty = 0
    /\ overflow_checks
    /\ peers \in SUBSET Connections \ {{}}

NextSock ==
    \/ \E c \in Connections : start_connection(c)
    \/ \E c \in Connections : started(c)
    \/ \E c \in Connections : hb(c)
    \/ \E c \in Connections : stopping(c)
    \/ \E c \in Connections, item \in FrameKinds : StreamHandler_handle(c, item)
    \/ \E c \in Connections : StreamHandler_finished(c)
    \/ Manager_Join
    \/ Manager_Leave
    \/ Tock

SpecSock == InitSock /\ [][NextSock]_vars

(***************************************************************************)
(* Vocabulary of the claims.                                               *)
(***************************************************************************)
Txs == block.body.transactions
PushStep == pushes' = pushes + 1
PowPassed ==
    pow_verified(digest_bytes, Block_hash(block), pow_difficulty, overflow_checks) = "true"

\* The inputs of the committed transactions, each as <<digest, position>>.
CommittedInputs ==
    UNION {{<<h, k>> : k \in 1..Len(transactions[h].inputs)} : h \in DOMAIN transactions}
SourceOf(occurrence) == transactions[occurrence[1]].inputs[occurrence[2]].source_output

\* C1: no two distinct inputs of committed transactions reference the same
\* (transaction digest, output index).
C1_NoDoubleSpend ==
    \A x, y \in CommittedInputs : SourceOf(x) = SourceOf(y) => x = y

\* A block with two inputs on one output was pushed and refused, and no input
\* is committed.
SpendsTwice(transaction) ==
    \E i, j \in 1..Len(transaction.inputs) :
        i # j /\ transaction.inputs[i].source_output = transaction.inputs[j].source_output
C1_Witness ==
    /\ op = "push" /\ PowPassed /\ result = "InvalidSignature"
    /\ \E k \in 1..Len(Txs) : SpendsTwice(Txs[k])
    /\ CommittedInputs = {}

\* C5: for every digest and every difficulty d in 0..8, pow_verified(d) is true
\* exactly when the d most significant bits of the first byte are zero.
C5_PowPredicate ==
    (op = "pow" /\ pow_difficulty <= PowDifficultyLimit) =>
        \A hash \in DOMAIN digest_bytes :
            result = IF FirstByte(digest_bytes, hash) \div (2 ^ (U8Bits - pow_difficulty)) = 0
                     THEN "true" ELSE "false"

ParentOf(hash) == blocks[hash].parent_hash
LastTwoAreSiblings ==
    /\ op = "push" /\ result = "Ok" /\ Len(accepted) >= 2
    /\ accepted[Len(accepted) - 1] # accepted[Len(accepted)]
    /\ ParentOf(accepted[Len(accepted) - 1]) = ParentOf(accepted[Len(accepted)])

\* C2 as written: after two valid blocks with the same parent are pushed, the
\* tip is the one pushed first.
C2_FirstOfTwoSiblings ==
    LastTwoAreSiblings => current_hash(Self) = accepted[Len(accepted) - 1]

\* The first of the two was higher than every block accepted before it: its
\* parent was at max_height when it was pushed.
FirstSiblingWasHighest ==
    \A k \in 1..(Len(accepted) - 2) :
        block_heights[accepted[k]] < block_heights[accepted[Len(accepted) - 1]]

TipFollowsHeight ==
    (PushStep /\ result' = "Ok") =>
        LET hash == Block_hash(block')
        IN  IF block_heights'[hash] > max_height
            THEN max_height_block_hash' = hash /\ max_height' = block_heights'[hash]
            ELSE UNCHANGED <<max_height, max_height_block_hash>>

\* C2, amended: of two valid blocks with the same parent pushed one after the
\* other, the parent being at max_height when the first is pushed, the tip after
\* both is the first; a successful push to a height above max_height makes that
\* block the tip, and a successful push to a height at or below it leaves the tip.
C2_ForkChoice ==
    /\ [](LastTwoAreSiblings /\ FirstSiblingWasHighest =>
            current_hash(Self) = accepted[Len(accepted) - 1])
    /\ [][TipFollowsHeight]_vars

\* Two siblings were accepted, then a child of the later one, which is the tip.
C2_Witness ==
    /\ Len(accepted) = 3
    /\ accepted[1] # accepted[2]
    /\ ParentOf(accepted[1]) = ParentOf(accepted[2])
    /\ ParentOf(accepted[3]) = accepted[2]
    /\ current_hash(Self) = accepted[3]
    /\ max_height = 2

\* C3: a push that does not return ok leaves transactions, blocks,
\* block_heights, max_height and max_height_block_hash as they were.
C3_FailureAtomicity ==
    [][(PushStep /\ result' # "Ok") => UNCHANGED ledger_vars]_vars

\* A push failed on the last check before the inserts.
C3_Witness == op = "push" /\ result = "HeightOverflow"

\* C4: a push of a block that passes verify and whose parent is no key of
\* block_heights returns the unknown-parent error and commits nothing.
C4_UnknownParent ==
    [][(/\ PushStep
        /\ verify(digest_bytes', transactions, pow_difficulty, overflow_checks, block') = "Ok"
        /\ block'.desc.parent_hash \notin DOMAIN block_heights)
       => /\ result' = "UnknownParent"
          /\ UNCHANGED ledger_vars
          /\ Block_hash(block') \notin DOMAIN blocks' \cup DOMAIN block_heights']_vars

C4_Witness ==
    /\ op = "push" /\ result = "UnknownParent"
    /\ block.desc.parent_hash = StrangerHash
    /\ Block_hash(block) \notin DOMAIN blocks

\* What the inputs of the candidate block resolve to, computed apart from
\* find_source: in the block first, then in the committed transactions.
BlockInputs == UNION {Range(t.inputs) : t \in Range(Txs)}
Known(hash) ==
    hash \in {Transaction_hash(t) : t \in Range(Txs)} \cup DOMAIN transactions
Referenced(input) ==
    LET h == input.source_output.transaction_hash
    IN  IF \E t \in Range(Txs) : Transaction_hash(t) = h
        THEN CHOOSE t \in Range(Txs) : Transaction_hash(t) = h
        ELSE transactions[h]
Resolves(input) ==
    /\ Known(input.source_output.transaction_hash)
    /\ input.source_output.index < Len(Referenced(input).outputs)
SourceOutput(input) == Referenced(input).outputs[input.source_output.index + 1]
Owned(input) == PublicKey_hash(input.public_key) = SourceOutput(input).receiver_address
Signed(input) == PublicKey_verify(input.public_key, TxIn_hash(input), input.signature)
FirstInputIs(P(_)) ==
    Len(Txs) >= 1 /\ Len(Txs[1].inputs) >= 1 /\ P(Txs[1].inputs[1])

\* Sums over the integers, with no width.
RECURSIVE ExactSum(_, _)
ExactSum(amount(_), items) ==
    IF Len(items) = 0 THEN 0 ELSE amount(Head(items)) + ExactSum(amount, Tail(items))
AmountOf(output) == output.amount
ResolvedAmount(input) == IF Resolves(input) THEN SourceOutput(input).amount ELSE 0
ExactOutput(transaction) == ExactSum(AmountOf, transaction.outputs)
ExactInput(transaction) == ExactSum(ResolvedAmount, transaction.inputs)

\* C6: verify rejects every block holding a transaction at index i >= 1 whose
\* outputs sum to more than what its inputs resolve to.
C6_PerTransactionBalance ==
    (/\ op = "verify"
     /\ \E i \in 2..Len(Txs) : ExactOutput(Txs[i]) > ExactInput(Txs[i]))
    => result # "Ok"

\* C7: verify rejects every block whose resolved inputs and whose outputs, summed
\* exactly over all its transactions, differ.
C7_BlockBalance ==
    (/\ op = "verify"
     /\ ExactSum(ExactInput, Txs) # ExactSum(ExactOutput, Txs))
    => result # "Ok"

Mismatched(input) == Resolves(input) /\ ~Owned(input)

\* C8: verify accepts no block holding an input whose key does not hash to the
\* address of the output it resolves to; an invalid signature is reported only
\* for an input whose key does; and when the first input verify reaches is such
\* a mismatch, the error is the ownership mismatch, signed or not.
C8_Ownership ==
    op = "verify" =>
        /\ (\E input \in BlockInputs : Mismatched(input)) => result # "Ok"
        /\ result = "InvalidSignature" =>
              \E input \in BlockInputs : Resolves(input) /\ Owned(input) /\ ~Signed(input)
        /\ (PowPassed /\ FirstInputIs(Mismatched)) => result = "OwnershipMismatch"

\* An input of the wrong key, its signature field filled from the signature
\* the holder of that key made, was refused for its ownership.
HolderSigned(input) ==
    input.signature = SignedIn(input.public_key, input.source_output).signature
MismatchedAndSigned(input) == Mismatched(input) /\ HolderSigned(input)
C8_Witness ==
    op = "verify" /\ result = "OwnershipMismatch" /\ FirstInputIs(MismatchedAndSigned)

Unresolvable(input) == ~Resolves(input)

\* C9: an input that names an unknown transaction, or an index past the outputs
\* of a known one, makes verify return the dangling-reference error.  Stated for
\* the first input verify reaches, so that no other check comes before it.
C9_DanglingReference ==
    (op = "verify" /\ PowPassed /\ FirstInputIs(Unresolvable))
    => result = "DanglingReference"

PowAborted ==
    pow_verified(digest_bytes, Block_hash(block), pow_difficulty, overflow_checks) = "Panic"

\* C10: verify returns ok only for a block whose transaction 0 has no input and
\* one output, and does not abort on an empty transaction list (where no other
\* abort than that of the proof-of-work shift can come first).
C10_BaseShape ==
    op = "verify" =>
        /\ (Len(Txs) = 0 /\ ~PowAborted) => result # "Panic"
        /\ result = "Ok" =>
              Len(Txs) >= 1 /\ Len(Txs[1].inputs) = 0 /\ Len(Txs[1].outputs) = 1

\* The batch just assembled is the scenario's: the 16 spends of the seeded
\* outputs, in order.
SeedSpendsAssembled ==
    /\ op = "queue" /\ pushes >= 1 /\ pool = <<>>
    /\ Len(Txs) = TX_PER_BLOCK
    /\ \A k \in 1..TX_PER_BLOCK : Txs[k] = SeedSpend(k - 1)

\* C11: at difficulty 0 on the seeded genesis G, queueing the 16 spends returns
\* Action::None fifteen times and on the 16th call Action::BroadcastBlock for a
\* block of those 16 transactions on G; then max_height is 1 and the tip is
\* that block.
C11_Assembly ==
    /\ (op = "queue" /\ pushes = 0) => result = "None"
    /\ (SeedSpendsAssembled /\ pow_difficulty = 0) =>
          /\ result = "BroadcastBlock"
          /\ block.desc.parent_hash = SeededHash
          /\ max_height = 1
          /\ current_hash(Self) = Block_hash(block)

\* C12: in every state reached from the genesis ledger by push calls, passing
\* or failing, the digest current_hash() returns is a key of blocks and a key of
\* block_heights.
C12_TipValidity ==
    current_hash(Self) \in DOMAIN blocks \cap DOMAIN block_heights

\* The tip moved off the genesis entry twice, and then a push failed.
C12_Witness ==
    /\ op = "push" /\ result # "Ok"
    /\ Len(accepted) = 2
    /\ current_hash(Self) = accepted[2]
    /\ current_hash(Self) \in DOMAIN blocks \cap DOMAIN block_heights

ParentHeightRecorded ==
    \A k \in 1..Len(accepted) :
        /\ accepted[k] \in DOMAIN blocks \cap DOMAIN block_heights
        /\ ParentOf(accepted[k]) \in DOMAIN block_heights
        /\ block_heights[accepted[k]] = block_heights[ParentOf(accepted[k])] + 1

SameKeyGained ==
    PushStep =>
        /\ DOMAIN blocks' \ DOMAIN blocks = DOMAIN block_heights' \ DOMAIN block_heights
        /\ result' = "Ok" => Block_hash(block') \in DOMAIN blocks' \cap DOMAIN block_heights'

ParentAtHeightLimit(b) ==
    /\ verify(digest_bytes', transactions, pow_difficulty, overflow_checks, b) = "Ok"
    /\ b.desc.parent_hash \in DOMAIN block_heights
    /\ block_heights[b.desc.parent_hash] = U128Max

OverflowRefused ==
    (PushStep /\ ParentAtHeightLimit(block')) =>
        /\ result' = "HeightOverflow"
        /\ UNCHANGED ledger_vars

\* C13: every block push recorded has its parent in block_heights, one level
\* below it; blocks and block_heights gain the same key in the same successful
\* push; and a push on a parent at the largest height returns the overflow
\* error and records nothing.
C13_HeightBookkeeping ==
    /\ []ParentHeightRecorded
    /\ [][SameKeyGained]_vars
    /\ [][OverflowRefused]_vars

\* A block at height 1, a block at height 2 on it, then a refused third level.
C13_Witness ==
    /\ op = "push" /\ result = "HeightOverflow"
    /\ Len(accepted) = 2
    /\ block_heights[accepted[1]] = 1
    /\ block_heights[accepted[2]] = U128Max
    /\ block.desc.parent_hash = accepted[2]
    /\ Block_hash(block) \notin DOMAIN block_heights

\* The position of the first successful push of a block.
FirstAccepted(hash) == CHOOSE k \in 1..Len(accepted) :
    accepted[k] = hash /\ \A j \in 1..(k - 1) : accepted[j] # hash

\* C14: max_height is the recorded height of the tip, no recorded height
\* exceeds it, and of the blocks at height max_height the tip is the one whose
\* push succeeded first.
C14_TipIsHighest ==
    /\ max_height = block_heights[max_height_block_hash]
    /\ \A hash \in DOMAIN block_heights : block_heights[hash] <= max_height
    /\ \A k \in 1..Len(accepted) :
          block_heights[accepted[k]] = max_height =>
              /\ max_height_block_hash \in Range(accepted)
              /\ FirstAccepted(max_height_block_hash) <= k

\* Two blocks at the top height, the tip being the earlier one, and an older
\* block below them.
C14_Witness ==
    /\ Len(accepted) = 3
    /\ block_heights[accepted[1]] = 1
    /\ block_heights[accepted[2]] = 2
    /\ block_heights[accepted[3]] = 2
    /\ accepted[2] # accepted[3]
    /\ max_height = 2
    /\ max_height_block_hash = accepted[2]

Kept(map, next_map) ==
    \A key \in DOMAIN map : key \in DOMAIN next_map /\ next_map[key] = map[key]

\* C15: across push calls a key of blocks, block_heights or transactions stays
\* a key with the value it had, and max_height never decreases.
C15_AppendOnly ==
    [][/\ Kept(blocks, blocks')
       /\ Kept(block_heights, block_heights')
       /\ Kept(transactions, transactions')
       /\ max_height' >= max_height]_vars

\* A block already recorded was pushed again after another block, so that its
\* keys were inserted a second time; two blocks are recorded next to genesis.
C15_Witness ==
    /\ op = "push" /\ result = "Ok"
    /\ Len(accepted) = 3
    /\ accepted[3] = accepted[1]
    /\ accepted[2] # accepted[1]
    /\ Cardinality(DOMAIN blocks) = 3
    /\ \A t \in Range(Txs) : Transaction_hash(t) \in DOMAIN transactions

AlreadyAccepted(b) == Block_hash(b) \in Range(accepted)

\* The last successful push was of a block accepted before.
Repushed ==
    /\ op = "push" /\ result = "Ok" /\ Len(accepted) >= 2
    /\ \E k \in 1..(Len(accepted) - 1) : accepted[k] = accepted[Len(accepted)]

\* C17 as written: after a push of a block that was accepted before, the ledger
\* is the ledger as the first acceptance of that block left it, whatever was
\* pushed in between.
C17_SameAsFirstAcceptance ==
    Repushed => Self = first_acceptance[Block_hash(block)]

\* C17, amended: a push of a block that was accepted before returns ok and
\* leaves transactions, blocks, block_heights, max_height and
\* max_height_block_hash as they were just before it, so the tip does not move;
\* the ledger keeps every entry the first acceptance left and a max_height at
\* least as large, and it is the ledger the first acceptance left when no new
\* block was accepted since.
C17_RepushIdempotent ==
    [][(PushStep /\ AlreadyAccepted(block')) =>
          LET first == first_acceptance[Block_hash(block')]
          IN  /\ result' = "Ok"
              /\ UNCHANGED ledger_vars
              /\ current_hash(Self)' = current_hash(Self)
              /\ Kept(first.transactions, transactions')
              /\ Kept(first.blocks, blocks')
              /\ Kept(first.block_heights, block_heights')
              /\ first.max_height <= max_height'
              /\ DOMAIN blocks = DOMAIN first.blocks => Self' = first]_vars

\* A block below the tip was pushed again after the tip had moved past it.
C17_Witness ==
    /\ op = "push" /\ result = "Ok"
    /\ Len(accepted) = 3
    /\ accepted[3] = accepted[1]
    /\ Block_hash(block) = accepted[1]
    /\ ParentOf(accepted[2]) = accepted[1]
    /\ current_hash(Self) = accepted[2]
    /\ max_height = 2

\* What the transactions after the base transaction leave over: their resolved
\* inputs less their outputs, summed exactly.
RECURSIVE Surplus(_)
Surplus(txs) ==
    IF Len(txs) = 0 THEN 0
    ELSE ExactInput(Head(txs)) - ExactOutput(Head(txs)) + Surplus(Tail(txs))

\* C16: in every block verify accepts, the amount of the base transaction's one
\* output is the sum over the other transactions of resolved inputs less
\* outputs; with no surplus it is 0.
C16_BaseFinancedByFees ==
    (op = "verify" /\ result = "Ok") =>
        Txs[1].outputs[1].amount = Surplus(Tail(Txs))

====
